---- MODULE Spec2Model ----
(***************************************************************************)
(* Model of the PlantUML proxy: the rendering client (manager.go) and the  *)
(* HTTP request handler in front of it (api/manager.go).                    *)
(*                                                                         *)
(* One behaviour is one rendering request.  Go strings and byte slices are *)
(* sequences of one-character strings; a nil pointer / nil slice is the    *)
(* empty tuple and a present value v is the one-element tuple <<v>>.       *)
(***************************************************************************)
EXTENDS Integers, Sequences, FiniteSets, TLC

VARIABLES
    pc,                 \* position: "handler", "render", "submit", "probe", "fetch", "returned", "done"
    request,            \* the request as received: caller, decodeOk, Data, Format, format
    diagramDescription, \* Render's parameter/local diagramDescription
    format,             \* Render's parameter format (a DiagramFormat)
    imgID,              \* Render's local imgID
    diagramFile,        \* Render's local diagramFile (Nil or Some(bytes))
    calls,              \* the outbound calls made so far, with what the renderer answered
    ret,                \* what Render returned: [file, syn, err]
    resp                \* what the handler wrote to the client

vars == <<pc, request, diagramDescription, format, imgID, diagramFile, calls, ret, resp>>

----------------------------------------------------------------------------
(* Bounds of the model *)

MaxDescLen == 2     \* longest diagram description
MaxMidLen == 2      \* longest text between the marker and the trailer
MaxTextLen == 2     \* longest text after " Syntax error: "

----------------------------------------------------------------------------
(* Optional values *)

Nil == <<>>
Some(v) == <<v>>

StringsUpTo(n, alphabet) == UNION {[1..k -> alphabet] : k \in 0..n}

----------------------------------------------------------------------------
(* Package errors (manager.go, var block) *)

NoError == "nil"
ErrInternalError == "internal error"
ErrServerIsUnavailable == "server is unavailable"
ErrInvalidDiagramFormat == "diagram output format is invalid"
ErrInvalidDiagramDescription == "there is a syntax error in diagram description or the diagram description is empty"

(* newError: only the digested PackageError is ever inspected by callers *)
newError(packageError) == packageError

(* DiagramFormat iota constants *)
DiagramFormatTXT == 0
DiagramFormatPNG == 1
DiagramFormatSVG == 2

----------------------------------------------------------------------------
(* Go's strings package, as used by the code *)

CharsOf(s) == {s[i] : i \in DOMAIN s}

RECURSIVE TrimLeft(_, _)
TrimLeft(s, cutset) ==
    IF s # <<>> /\ Head(s) \in CharsOf(cutset) THEN TrimLeft(Tail(s), cutset) ELSE s

RECURSIVE TrimRight(_, _)
TrimRight(s, cutset) ==
    IF s # <<>> /\ s[Len(s)] \in CharsOf(cutset)
    THEN TrimRight(SubSeq(s, 1, Len(s) - 1), cutset)
    ELSE s

Trim(s, cutset) == TrimRight(TrimLeft(s, cutset), cutset)

HasPrefix(s, prefix) ==
    Len(s) >= Len(prefix) /\ SubSeq(s, 1, Len(prefix)) = prefix

(* strings.Split(s, "\n") *)
RECURSIVE Split(_)
Split(s) ==
    LET hits == {i \in DOMAIN s : s[i] = "\n"} IN
    IF hits = {} THEN <<s>>
    ELSE LET i == CHOOSE j \in hits : \A k \in hits : j <= k IN
         <<SubSeq(s, 1, i - 1)>> \o Split(SubSeq(s, i + 1, Len(s)))

Digits == <<"0", "1", "2", "3", "4", "5", "6", "7", "8", "9">>

DigitValue(c) == (CHOOSE i \in DOMAIN Digits : Digits[i] = c) - 1

RECURSIVE DecimalValue(_)
DecimalValue(s) ==
    IF s = <<>> THEN 0
    ELSE 10 * DecimalValue(SubSeq(s, 1, Len(s) - 1)) + DigitValue(s[Len(s)])

(* strconv.Atoi: an optional sign, then one or more decimal digits.  The  *)
(* strings of the model are far shorter than the 19 digits of an int64.   *)
Atoi(s) ==
    LET signed == s # <<>> /\ Head(s) \in {"+", "-"}
        digits == IF signed THEN Tail(s) ELSE s
        ok     == digits # <<>> /\ CharsOf(digits) \subseteq CharsOf(Digits)
    IN  IF ~ok THEN [ok |-> FALSE, value |-> 0]
        ELSE [ok |-> TRUE,
              value |-> IF signed /\ Head(s) = "-" THEN 0 - DecimalValue(digits)
                        ELSE DecimalValue(digits)]

----------------------------------------------------------------------------
(* What the renderer can answer *)

Statuses == {200, 400, 404, 500}

(* the final URL of the submission after redirects, split at "/" *)
FinalURLs == {<<"http:", "", "plantuml:8080", "uml", "SoWkIImgAStDuU8g">>}

Marker == <<"[", "F", "r", "o", "m", " ", "s", "t", "r", "i", "n", "g", " ", "(", "l", "i", "n", "e", " ">>
SyntaxErrorCutset == <<" ", "S", "y", "n", "t", "a", "x", " ", "e", "r", "r", "o", "r", ":", " ">>
TrailerCutset == <<")", " ", "]">>

(* the renderer's diagnostic of the spec's example: error on line 5 *)
ExampleBody ==
    <<"[", "F", "r", "o", "m", " ", "s", "t", "r", "i", "n", "g", " ", "(", "l", "i", "n", "e", " ", "5", ")", " ", "]", "\n", "@", "s", "t", "a", "r", "t", "u", "m", "l", "\n", " ", "S", "y", "n", "t", "a", "x", " ", "e", "r", "r", "o", "r", ":", " ", "e", "x", "p", "e", "c", "t", "e", "d", " ", "'", "@", "e", "n", "d", "u", "m", "l", "'">>

MidTexts == StringsUpTo(MaxMidLen, {"5", "1", "e", "-", " "})
ErrorTexts == StringsUpTo(MaxTextLen, {"e", "x", "p"})

(* bodies whose first line starts with the marker *)
MarkerBodies ==
    {Marker \o m \o <<")", " ", "]", "\n">> \o SyntaxErrorCutset \o <<"p">> : m \in MidTexts}
    \cup {Marker \o <<"5", ")", " ", "]", "\n", "a", "\n">> \o SyntaxErrorCutset \o t : t \in ErrorTexts}
    \cup {Marker \o <<"5", ")", " ", "]", "\n">> \o t : t \in ErrorTexts}
    \cup {ExampleBody,
          Marker,
          Marker \o <<"7">>,
          Marker \o <<"1", "2", ")">>,
          Marker \o <<"x", "5", ")", " ", "]">>,
          Marker \o <<"3", ")", " ", "]", "\n">>}

(* bodies whose first line does not start with the marker *)
PlainBodies ==
    {<<>>,
     <<"A", "-", ">", "B">>,
     <<"\n">> \o Marker \o <<"5", ")", " ", "]">>,
     SubSeq(Marker, 1, Len(Marker) - 1),
     <<" ">> \o Marker \o <<"5", ")", " ", "]", "\n">> \o SyntaxErrorCutset \o <<"p">>,
     <<"E", "R", "R", "O", "R", "\n", "5">>}

(* what the plaintext endpoint sends with status 400 *)
DiagnosticBodies == MarkerBodies \cup PlainBodies

(* what the plaintext endpoint sends with any other status *)
TxtBodies == PlainBodies \cup {ExampleBody}

(* what the png/svg endpoints send *)
ImageBodies == {<<>>, <<"P", "N", "G">>, <<"<", "s", "v", "g", ">">>, <<"A", "-", ">", "B">>}

TransportFailure == [transport |-> TRUE, status |-> 0, readErr |-> FALSE, body |-> <<>>]

SubmitResponses ==
    {[transport |-> TRUE, status |-> 0, url |-> <<>>]}
    \cup [transport : {FALSE}, status : Statuses, url : FinalURLs]

ProbeResponses ==
    {TransportFailure}
    \cup [transport : {FALSE}, status : Statuses, readErr : {TRUE}, body : {<<>>}]
    \cup [transport : {FALSE}, status : {400}, readErr : {FALSE}, body : DiagnosticBodies]
    \cup [transport : {FALSE}, status : Statuses \ {400}, readErr : {FALSE}, body : TxtBodies]

FetchResponses ==
    {TransportFailure}
    \cup [transport : {FALSE}, status : Statuses, readErr : {TRUE}, body : {<<>>}]
    \cup [transport : {FALSE}, status : Statuses, readErr : {FALSE}, body : ImageBodies]

----------------------------------------------------------------------------
(* manager.go: the rendering client *)

SyntaxError(lineNumber, lineWithError, rawError) ==
    [LineNumber |-> lineNumber, LineWithError |-> lineWithError, RawError |-> rawError]

(* the variant that reports a syntax error whatever the first line is *)
getErrorLineNumberNoMarkerCheck(diagramAsTXT) ==
    LET lines     == Split(diagramAsTXT)
        lastLine  == TrimLeft(lines[Len(lines)], SyntaxErrorCutset)
        firstLine == TrimRight(TrimLeft(lines[1], Marker), TrailerCutset)
        number    == Atoi(firstLine)
    IN  Some(SyntaxError(IF number.ok THEN number.value ELSE 0, lastLine, diagramAsTXT))

(* getErrorLineNumber: Nil, or the description of the syntax error *)
getErrorLineNumber(diagramAsTXT) ==
    LET lines     == Split(diagramAsTXT)
        lastLine  == TrimLeft(lines[Len(lines)], SyntaxErrorCutset)
        firstLine == TrimRight(TrimLeft(lines[1], Marker), TrailerCutset)
        number    == Atoi(firstLine)
    IN  IF ~HasPrefix(lines[1], Marker) THEN Nil
        ELSE IF ~number.ok THEN Some(SyntaxError(0, lastLine, diagramAsTXT))
        ELSE Some(SyntaxError(number.value, lastLine, diagramAsTXT))

(* the variant that does not look at the status code *)
getDiagramIDNoStatusCheck(r) ==
    IF r.transport THEN [imgID |-> "", err |-> newError(ErrInternalError)]
    ELSE [imgID |-> IF r.url = <<>> THEN "" ELSE r.url[Len(r.url)], err |-> NoError]

(* getDiagramID: the id of the rendered diagram, from the answer r to the POST *)
getDiagramID(r) ==
    IF r.transport THEN [imgID |-> "", err |-> newError(ErrInternalError)]
    ELSE IF r.status # 200 /\ r.status # 400
         THEN [imgID |-> "", err |-> newError(ErrServerIsUnavailable)]
    ELSE [imgID |-> r.url[Len(r.url)], err |-> NoError]

(* the variant that drops the error of reading the body *)
downloadDiagramIgnoringReadError(r) ==
    IF r.transport THEN [file |-> Nil, has |-> FALSE, err |-> newError(ErrInternalError)]
    ELSE IF r.status # 200 /\ r.status # 400
         THEN [file |-> Nil, has |-> FALSE, err |-> newError(ErrServerIsUnavailable)]
    ELSE [file |-> Some(r.body), has |-> r.status = 400, err |-> NoError]

(* downloadDiagram: the diagram and the 'has syntax error' flag, from the answer r to the GET *)
downloadDiagram(r) ==
    IF r.transport THEN [file |-> Nil, has |-> FALSE, err |-> newError(ErrInternalError)]
    ELSE IF r.status # 200 /\ r.status # 400
         THEN [file |-> Nil, has |-> FALSE, err |-> newError(ErrServerIsUnavailable)]
    ELSE IF r.readErr THEN [file |-> Nil, has |-> FALSE, err |-> newError(ErrInternalError)]
    ELSE IF r.status = 400 THEN [file |-> Some(r.body), has |-> TRUE, err |-> NoError]
    ELSE [file |-> Some(r.body), has |-> FALSE, err |-> NoError]

(* Render's validation of its parameters: the error it returns, or NoError *)
RenderValidate(description, fmt) ==
    IF Len(Trim(description, <<" ">>)) = 0 THEN newError(ErrInvalidDiagramDescription)
    ELSE IF fmt \notin {DiagramFormatTXT, DiagramFormatPNG, DiagramFormatSVG}
         THEN newError(ErrInvalidDiagramFormat)
    ELSE NoError

(* the variant that hands the probe's text back next to the syntax error *)
RenderCheckErrorKeepingFile(dl) ==
    LET syntaxError == IF dl.has THEN getErrorLineNumber(dl.file[1]) ELSE Nil IN
    IF syntaxError # Nil
    THEN [returns |-> TRUE, file |-> dl.file, syn |-> syntaxError,
          err |-> newError(ErrInvalidDiagramDescription)]
    ELSE [returns |-> FALSE, file |-> Nil, syn |-> Nil, err |-> NoError]

(* Render, step 3: whether the probe's answer ends the call with a syntax error *)
RenderCheckError(dl) ==
    LET syntaxError == IF dl.has THEN getErrorLineNumber(dl.file[1]) ELSE Nil IN
    IF syntaxError # Nil
    THEN [returns |-> TRUE, file |-> Nil, syn |-> syntaxError,
          err |-> newError(ErrInvalidDiagramDescription)]
    ELSE [returns |-> FALSE, file |-> Nil, syn |-> Nil, err |-> NoError]

(* the variant that never takes the TXT shortcut *)
RenderIsTXTNever(fmt) == FALSE

(* Render, step 4: whether the probe's text is the requested diagram *)
RenderIsTXT(fmt) == fmt = DiagramFormatTXT

(* the variant that keeps the probe's text instead of the fetched diagram *)
RenderFetchedKeepingProbe(probeFile, dl) ==
    IF dl.err # NoError THEN [file |-> Nil, syn |-> Nil, err |-> dl.err]
    ELSE [file |-> probeFile, syn |-> Nil, err |-> NoError]

(* Render, after the final download: what it returns *)
RenderFetched(probeFile, dl) ==
    IF dl.err # NoError THEN [file |-> Nil, syn |-> Nil, err |-> dl.err]
    ELSE [file |-> dl.file, syn |-> Nil, err |-> NoError]

----------------------------------------------------------------------------
(* api/manager.go: the request handler *)

NoResponse == [fault |-> FALSE, status |-> 0, body |-> Nil, error_code |-> 0, error_data |-> Nil]

(* a panic unwinding the handler: nothing was written *)
Fault == [fault |-> TRUE, status |-> 0, body |-> Nil, error_code |-> 0, error_data |-> Nil]

(* sendErr: status 500 and the JSON envelope {ok: false, error_code, error_data} *)
sendErr(errorCode, errorData) ==
    [fault |-> FALSE, status |-> 500, body |-> Nil, error_code |-> errorCode, error_data |-> errorData]

(* the switch on prms.Format *)
handlerFormat(name) ==
    CASE name = "svg" -> [ok |-> TRUE, format |-> DiagramFormatSVG]
      [] name = "png" -> [ok |-> TRUE, format |-> DiagramFormatPNG]
      [] name = "txt" -> [ok |-> TRUE, format |-> DiagramFormatTXT]
      [] OTHER -> [ok |-> FALSE, format |-> DiagramFormatTXT]

(* handlerRenderDiagram after Render returned r: reading a field of a nil *)
(* *SyntaxError panics before anything is written                         *)
handlerRespond(r) ==
    IF r.err # NoError
    THEN IF r.err = ErrInvalidDiagramDescription
         THEN IF r.syn = Nil THEN Fault
              ELSE sendErr(3, Some([syntax_error_line |-> r.syn[1].LineNumber,
                                    line_with_error |-> r.syn[1].LineWithError,
                                    raw |-> r.syn[1].RawError]))
         ELSE sendErr(4, Nil)
    ELSE [fault |-> FALSE, status |-> 200, body |-> r.file, error_code |-> 0, error_data |-> Nil]

----------------------------------------------------------------------------
(* The requests *)

Descriptions ==
    StringsUpTo(MaxDescLen, {" ", "\t", "a"})
    \cup {<<"\n">>, <<"\r", "\n">>, <<" ", "a", "\n", "b", " ">>}

FormatNames == {"svg", "png", "txt", "gif"}

(* a request is a POST to /api/render-diagram (caller "http"), or a call *)
(* of Manager.Render by a program that imports the package ("direct")    *)
Requests ==
    [caller : {"http"}, decodeOk : {TRUE}, Data : Descriptions, Format : FormatNames,
     format : {DiagramFormatTXT}]
    \cup [caller : {"http"}, decodeOk : {FALSE}, Data : {<<>>}, Format : {""},
          format : {DiagramFormatTXT}]
    \cup [caller : {"direct"}, decodeOk : {TRUE}, Data : Descriptions, Format : {""},
          format : {DiagramFormatTXT, DiagramFormatPNG, DiagramFormatSVG, 3}]

NoReturn == [file |-> Nil, syn |-> Nil, err |-> NoError]

Init ==
    /\ request \in Requests
    /\ pc = IF request.caller = "http" THEN "handler" ELSE "render"
    /\ diagramDescription = IF request.caller = "direct" THEN request.Data ELSE <<>>
    /\ format = request.format
    /\ imgID = ""
    /\ diagramFile = Nil
    /\ calls = <<>>
    /\ ret = NoReturn
    /\ resp = NoResponse

Call(name, r) ==
    [call |-> name, transport |-> r.transport, status |-> r.status,
     readErr |-> r.readErr, body |-> r.body]

Return(r) ==
    /\ ret' = r
    /\ pc' = "returned"

(* handlerRenderDiagram up to the call of Render *)
HandlerDecode ==
    /\ pc = "handler"
    /\ IF ~request.decodeOk
       THEN /\ resp' = sendErr(2, Nil)
            /\ pc' = "done"
            /\ UNCHANGED <<diagramDescription, format>>
       ELSE IF ~handlerFormat(request.Format).ok
       THEN /\ resp' = sendErr(4, Nil)
            /\ pc' = "done"
            /\ UNCHANGED <<diagramDescription, format>>
       ELSE /\ format' = handlerFormat(request.Format).format
            /\ diagramDescription' = request.Data
            /\ pc' = "render"
            /\ UNCHANGED resp
    /\ UNCHANGED <<request, imgID, diagramFile, calls, ret>>

(* Render up to the first outbound call *)
RenderStart ==
    /\ pc = "render"
    /\ IF RenderValidate(diagramDescription, format) # NoError
       THEN /\ Return([file |-> Nil, syn |-> Nil,
                       err |-> RenderValidate(diagramDescription, format)])
            /\ diagramDescription' = Trim(diagramDescription, <<" ">>)
       ELSE /\ diagramDescription' = Trim(diagramDescription, <<" ">>)
            /\ pc' = "submit"
            /\ UNCHANGED ret
    /\ UNCHANGED <<request, format, imgID, diagramFile, calls, resp>>

(* Render, step 1: the POST of the description, answered by r *)
RenderSubmit ==
    /\ pc = "submit"
    /\ \E r \in SubmitResponses :
         /\ calls' = Append(calls, [call |-> "submit", transport |-> r.transport,
                                    status |-> r.status, readErr |-> FALSE, body |-> <<>>])
         /\ IF getDiagramID(r).err # NoError
            THEN /\ Return([file |-> Nil, syn |-> Nil, err |-> getDiagramID(r).err])
                 /\ UNCHANGED imgID
            ELSE /\ imgID' = getDiagramID(r).imgID
                 /\ pc' = "probe"
                 /\ UNCHANGED ret
    /\ UNCHANGED <<request, diagramDescription, format, diagramFile, resp>>

(* Render, steps 2 to 4 up to the final download: the GET of the TXT *)
(* rendering, answered by r                                           *)
RenderProbe ==
    /\ pc = "probe"
    /\ \E r \in ProbeResponses :
         LET dl == downloadDiagram(r) IN
         /\ calls' = Append(calls, Call("probe", r))
         /\ IF dl.err # NoError
            THEN /\ Return([file |-> Nil, syn |-> Nil, err |-> dl.err])
                 /\ UNCHANGED diagramFile
            ELSE IF RenderCheckError(dl).returns
            THEN /\ Return([file |-> RenderCheckError(dl).file,
                            syn |-> RenderCheckError(dl).syn,
                            err |-> RenderCheckError(dl).err])
                 /\ diagramFile' = dl.file
            ELSE IF RenderIsTXT(format)
            THEN /\ Return([file |-> dl.file, syn |-> Nil, err |-> NoError])
                 /\ diagramFile' = dl.file
            ELSE /\ diagramFile' = dl.file
                 /\ pc' = "fetch"
                 /\ UNCHANGED ret
    /\ UNCHANGED <<request, diagramDescription, format, imgID, resp>>

(* Render, step 4: the GET of the rendering in the required format, answered by r *)
RenderFetch ==
    /\ pc = "fetch"
    /\ \E r \in FetchResponses :
         /\ calls' = Append(calls, Call("fetch", r))
         /\ diagramFile' = downloadDiagram(r).file
         /\ Return(RenderFetched(diagramFile, downloadDiagram(r)))
    /\ UNCHANGED <<request, diagramDescription, format, imgID, resp>>

(* handlerRenderDiagram after Render returned *)
HandlerRespond ==
    /\ pc = "returned"
    /\ request.caller = "http"
    /\ resp' = handlerRespond(ret)
    /\ pc' = "done"
    /\ UNCHANGED <<request, diagramDescription, format, imgID, diagramFile, calls, ret>>

Next ==
    \/ HandlerDecode
    \/ RenderStart
    \/ RenderSubmit
    \/ RenderProbe
    \/ RenderFetch
    \/ HandlerRespond

Spec == Init /\ [][Next]_vars

----------------------------------------------------------------------------
(* Vocabulary of the properties *)

RenderCalled ==
    \/ request.caller = "direct"
    \/ request.decodeOk /\ request.Format \in {"svg", "png", "txt"}

RenderReturned == RenderCalled /\ pc \in {"returned", "done"}

IsBlank(s) == CharsOf(s) \subseteq {" ", "\t", "\n", "\r"}

FirstLine(body) == Split(body)[1]
LastLine(body) == Split(body)[Len(Split(body))]

(* the call completed: an answer with status 200 or 400, read in full *)
CallOK(c) == ~c.transport /\ ~c.readErr /\ c.status \in {200, 400}

CallFailedInTransport(c) == c.transport \/ c.readErr

Probed == Len(calls) >= 2

ProbeSaid(status) == Probed /\ CallOK(calls[2]) /\ calls[2].status = status

ProbeMarked == ProbeSaid(400) /\ HasPrefix(FirstLine(calls[2].body), Marker)
ProbeUnmarked == ProbeSaid(400) /\ ~HasPrefix(FirstLine(calls[2].body), Marker)

Success(bytes) == [file |-> Some(bytes), syn |-> Nil, err |-> NoError]
OperationalFailure(kind) == [file |-> Nil, syn |-> Nil, err |-> kind]

IsSuccess(r) == r.file # Nil /\ r.syn = Nil /\ r.err = NoError
IsSyntaxFailure(r) == r.syn # Nil /\ r.file = Nil
IsOperationalFailure(r) == r.err # NoError /\ r.file = Nil /\ r.syn = Nil

(* the text of the first line between the marker and the trailer of ')', ']', ' ' *)
WrittenLineNumber(body) ==
    TrimRight(SubSeq(FirstLine(body), Len(Marker) + 1, Len(FirstLine(body))), TrailerCutset)

CallOrder == <<"submit", "probe", "fetch">>

----------------------------------------------------------------------------
(* C1: a description that is empty or only whitespace (spaces, tabs,     *)
(* newlines, carriage returns) makes Render return InvalidDescription,   *)
(* with no artifact and no SyntaxError, and no outbound call is made,     *)
(* for each of the formats TXT, PNG and SVG.                             *)
C1_BlankDescriptionRejected ==
    (RenderCalled /\ IsBlank(request.Data)
        /\ format \in {DiagramFormatTXT, DiagramFormatPNG, DiagramFormatSVG}) =>
        /\ calls = <<>>
        /\ RenderReturned => ret = OperationalFailure(ErrInvalidDiagramDescription)

(* C2: when the probe answers 400, the first line starts with the marker *)
(* and the last line is " Syntax error: " followed by T, the SyntaxError *)
(* has LineWithError = T exactly and RawError = the whole body.          *)
C2_LineWithErrorIsText ==
    (RenderReturned /\ ProbeMarked
        /\ HasPrefix(LastLine(calls[2].body), SyntaxErrorCutset)) =>
        /\ ret.syn # Nil
        /\ ret.syn[1].LineWithError =
             SubSeq(LastLine(calls[2].body), Len(SyntaxErrorCutset) + 1,
                    Len(LastLine(calls[2].body)))
        /\ ret.syn[1].RawError = calls[2].body

(* C3: for every outcome of Render the handler completes with a          *)
(* well-formed response and never faults: Success gives 200 with the     *)
(* artifact, SyntaxFailure gives 500 with error_code 3 and the           *)
(* SyntaxError's fields, every operational failure (InvalidDescription   *)
(* for an empty description included) gives 500 with error_code 4 and    *)
(* null error_data; error_code 3 only with a SyntaxError present.        *)
C3_HandlerNeverFaults ==
    (RenderCalled /\ request.caller = "http" /\ pc = "done") =>
        /\ ~resp.fault
        /\ IsSuccess(ret) =>
             resp = [fault |-> FALSE, status |-> 200, body |-> ret.file,
                     error_code |-> 0, error_data |-> Nil]
        /\ IsSyntaxFailure(ret) =>
             resp = sendErr(3, Some([syntax_error_line |-> ret.syn[1].LineNumber,
                                     line_with_error |-> ret.syn[1].LineWithError,
                                     raw |-> ret.syn[1].RawError]))
        /\ IsOperationalFailure(ret) => resp = sendErr(4, Nil)
        /\ resp.error_code = 3 => ret.syn # Nil

(* C4, as claimed: when the probe answers 400 and the first line does    *)
(* not start with the marker, Render does not return Success: the caller *)
(* sees InvalidDescription with no SyntaxError.                          *)
C4_UnmarkedDiagnosticFails ==
    (RenderReturned /\ ProbeUnmarked) =>
        ret = OperationalFailure(ErrInvalidDiagramDescription)

(* C4, amended: when the probe answers 400 and the first line does not   *)
(* start with the marker, Render reports no SyntaxError and goes on to   *)
(* step 4: for TXT it returns Success with the probe's body; for PNG and *)
(* SVG it makes the final fetch and returns Success with the fetched     *)
(* body, or the fetch's operational failure.                             *)
C4_UnmarkedDiagnosticFallsThrough ==
    ProbeUnmarked =>
        /\ ~RenderReturned => (pc = "fetch" /\ Len(calls) = 2 /\ format # DiagramFormatTXT)
        /\ RenderReturned =>
             /\ ret.syn = Nil
             /\ format = DiagramFormatTXT =>
                  (Len(calls) = 2 /\ ret = Success(calls[2].body))
             /\ format # DiagramFormatTXT =>
                  /\ Len(calls) = 3
                  /\ IF CallOK(calls[3]) THEN ret = Success(calls[3].body)
                     ELSE ret \in {OperationalFailure(ErrServerIsUnavailable),
                                   OperationalFailure(ErrInternalError)}

C4_Witness ==
    /\ pc = "returned"
    /\ ProbeUnmarked
    /\ format = DiagramFormatTXT
    /\ calls[2].body = <<"E", "R", "R", "O", "R", "\n", "5">>
    /\ ret = Success(calls[2].body)

(* C5: with format TXT the format-specific third call is never made (at  *)
(* most the submit and the probe), and a Success carries exactly the     *)
(* body of the plaintext probe.                                          *)
C5_TxtNeverFetches ==
    (RenderCalled /\ format = DiagramFormatTXT) =>
        /\ Len(calls) <= 2
        /\ \A i \in DOMAIN calls : calls[i].call # "fetch"
        /\ (RenderReturned /\ ret.err = NoError) =>
             (Len(calls) = 2 /\ ret = Success(calls[2].body))

C5_Witness ==
    /\ pc = "returned"
    /\ format = DiagramFormatTXT
    /\ ProbeSaid(200)
    /\ calls[2].body = <<"A", "-", ">", "B">>
    /\ ret = Success(calls[2].body)

(* C6: a transport-level failure on any of the three outbound calls      *)
(* makes Render return ServerUnavailable or InternalError with no        *)
(* artifact and no SyntaxError, whatever the earlier calls returned; the *)
(* handler then answers error_code 4 with null error_data.               *)
C6_TransportFailureIsOperational ==
    (RenderReturned /\ \E i \in DOMAIN calls : CallFailedInTransport(calls[i])) =>
        /\ ret \in {OperationalFailure(ErrServerIsUnavailable),
                    OperationalFailure(ErrInternalError)}
        /\ (pc = "done") => resp = sendErr(4, Nil)

C6_Witness ==
    /\ pc = "done"
    /\ Len(calls) = 3
    /\ ProbeUnmarked
    /\ calls[3].transport
    /\ resp = sendErr(4, Nil)

(* C7: for PNG or SVG and a valid description, if the submit succeeds,   *)
(* the probe answers 200 and the format-specific fetch answers 200 with  *)
(* bytes B, Render returns Success with exactly B (not the probe's body) *)
(* and the handler answers 200 with body exactly B.                      *)
C7_ImageArtifactIsFetchedBody ==
    (RenderCalled /\ ~IsBlank(request.Data)
        /\ format \in {DiagramFormatPNG, DiagramFormatSVG}
        /\ ProbeSaid(200) /\ CallOK(calls[1])) =>
        /\ Len(calls) = 2 => pc = "fetch"
        /\ (Len(calls) = 3 /\ CallOK(calls[3]) /\ calls[3].status = 200) =>
             /\ RenderReturned
             /\ ret = Success(calls[3].body)
             /\ (pc = "done") =>
                  resp = [fault |-> FALSE, status |-> 200, body |-> Some(calls[3].body),
                          error_code |-> 0, error_data |-> Nil]

C7_Witness ==
    /\ pc = "done"
    /\ format = DiagramFormatPNG
    /\ ProbeSaid(200)
    /\ Len(calls) = 3 /\ CallOK(calls[3]) /\ calls[3].status = 200
    /\ calls[3].body = <<"P", "N", "G">>
    /\ calls[2].body = <<"A", "-", ">", "B">>
    /\ resp.status = 200
    /\ resp.body = Some(<<"P", "N", "G">>)

(* C8: every Render call returns exactly one of Success (an artifact, no *)
(* SyntaxError, no error), SyntaxFailure (a SyntaxError, no artifact) or *)
(* OperationalFailure (an error kind, no artifact, no SyntaxError); an   *)
(* artifact never comes with a SyntaxError or an error.                  *)
C8_ExactlyOneOutcome ==
    RenderReturned =>
        /\ Cardinality({k \in {"success", "syntax", "operational"} :
                          \/ k = "success" /\ IsSuccess(ret)
                          \/ k = "syntax" /\ IsSyntaxFailure(ret)
                          \/ k = "operational" /\ IsOperationalFailure(ret)}) = 1
        /\ ret.file # Nil => (ret.syn = Nil /\ ret.err = NoError)

C8_Witness ==
    /\ pc = "returned"
    /\ format = DiagramFormatPNG
    /\ IsSyntaxFailure(ret)
    /\ calls[2].body = ExampleBody

(* C9: the outbound calls of one Render are made in the order submit,    *)
(* probe, fetch, each at most once and each only after the previous one  *)
(* completed with status 200 or 400; after a transport failure, an       *)
(* unexpected status or a detected syntax error no further call is made  *)
(* and nothing is retried.                                               *)
C9_CallsInOrder ==
    /\ Len(calls) <= 3
    /\ \A i \in DOMAIN calls :
         /\ calls[i].call = CallOrder[i]
         /\ i < Len(calls) => CallOK(calls[i])
    /\ (Len(calls) = 3) => ~ProbeMarked
    /\ (pc \in {"returned", "done"} /\ calls # <<>> /\ ~CallOK(calls[Len(calls)])) =>
         IsOperationalFailure(ret)
    /\ (pc \in {"handler", "render", "submit"}) => calls = <<>>
    /\ (pc = "probe") => Len(calls) = 1
    /\ (pc = "fetch") => Len(calls) = 2

C9_Witness ==
    /\ pc = "returned"
    /\ Len(calls) = 3
    /\ calls[1].status = 400
    /\ calls[3].status = 500

(* C10: for a 400 probe body whose first line starts with the marker,    *)
(* LineNumber is the integer written between the marker and the trailer  *)
(* of ')', ']' and spaces; when that text is no parseable integer,       *)
(* LineNumber is 0 and LineWithError and RawError are populated as in    *)
(* the parseable case.                                                   *)
C10_LineNumberIsWrittenInteger ==
    (RenderReturned /\ ProbeMarked) =>
        /\ ret.syn # Nil
        /\ ret.syn[1].LineNumber =
             IF Atoi(WrittenLineNumber(calls[2].body)).ok
             THEN Atoi(WrittenLineNumber(calls[2].body)).value
             ELSE 0
        /\ ret.syn[1].LineWithError = TrimLeft(LastLine(calls[2].body), SyntaxErrorCutset)
        /\ ret.syn[1].RawError = calls[2].body

====
